---- MODULE Spec2Model ----
(***************************************************************************)
(* minRLHF: the episodic rollout Buffer (src/minRLHF/buffer.py) and the    *)
(* PPOTrainer.train loop (src/minRLHF/ppo_trainer.py) as state machines.   *)
(*                                                                         *)
(* Tensors are sequences (1-based: source index t is position t+1 here).   *)
(* A tensor element is an exact rational <<n, d>> in lowest terms with     *)
(* d > 0 (a long element has d = 1), or one of the markers NaN / Uninit.   *)
(***************************************************************************)
EXTENDS Integers, Sequences, FiniteSets, TLC

(* ------------------------------ bounds -------------------------------- *)
\* PPOTrainer(rollout_batch_size=..., rollout_batches_per_epoch=...,
\* max_ep_length=...): constructor arguments.
rollout_batch_size == 1
rollout_batches_per_epoch == 3
max_ep_length == 3
\* ppo_trainer.py lines 95-96: the trainer's Buffer holds one epoch's rollouts.
max_episodes == rollout_batch_size * rollout_batches_per_epoch
\* The largest batch handed to one store call.
MaxBatch == 2

(* --------------------------- exact arithmetic -------------------------- *)
Abs(i) == IF i < 0 THEN -i ELSE i

RECURSIVE GCD(_, _)
GCD(a, b) == IF b = 0 THEN a ELSE GCD(b, a % b)

\* The rational n/d in lowest terms, denominator positive (d # 0).
Rat(n, d) ==
    LET g == GCD(Abs(n), Abs(d))
        s == IF d < 0 THEN -1 ELSE 1
    IN  <<(s * n) \div g, (s * d) \div g>>

Zero == <<0, 1>>
One == <<1, 1>>
Half == <<1, 2>>
\* 0/0, and the content of memory that torch.empty allocated.
NaN == <<0, 0>>
Uninit == <<0, -1>>

FromInt(i) == <<i, 1>>
IsRat(x) == Len(x) = 2 /\ x[2] > 0
\* The result of an operation with an operand that is no number: a value
\* computed from uninitialised memory is itself arbitrary.
Poison(x, y) == IF x = Uninit \/ y = Uninit THEN Uninit ELSE NaN
\* Products are taken after cancelling common factors, so that intermediate
\* values stay small.
RAdd(x, y) ==
    IF IsRat(x) /\ IsRat(y)
    THEN LET g == GCD(x[2], y[2])
         IN  Rat(x[1] * (y[2] \div g) + y[1] * (x[2] \div g), x[2] * (y[2] \div g))
    ELSE Poison(x, y)
RNeg(x) == IF IsRat(x) THEN <<-x[1], x[2]>> ELSE x
RSub(x, y) == RAdd(x, RNeg(y))
RMul(x, y) ==
    IF IsRat(x) /\ IsRat(y)
    THEN LET g1 == GCD(Abs(x[1]), y[2])
             g2 == GCD(Abs(y[1]), x[2])
         IN  <<(x[1] \div g1) * (y[1] \div g2), (x[2] \div g2) * (y[2] \div g1)>>
    ELSE Poison(x, y)
\* 1 / x for a rational x # 0.
RInv(x) == IF x[1] > 0 THEN <<x[2], x[1]>> ELSE <<-x[2], -x[1]>>
RGt(x, y) == x[1] * y[2] > y[1] * x[2]
\* x / k for an integer k > 0.
RDivInt(x, k) == IF IsRat(x) THEN Rat(x[1], x[2] * k) ELSE x
\* float -> long conversion: truncation toward zero.
Trunc(x) == IF x[1] >= 0 THEN x[1] \div x[2] ELSE -((-x[1]) \div x[2])

RECURSIVE RSum(_, _)
RSum(row, n) ==
    IF n = 0 THEN Zero ELSE RAdd(RSum(row, n - 1), row[n])

(* ------------------------------ tensors -------------------------------- *)
Rows == 1 .. max_episodes
Cols == 1 .. max_ep_length

\* torch.empty(size=(rows, cols)): allocated, never written.
Empty(rows, cols) == [i \in 1 .. rows |-> [t \in 1 .. cols |-> Uninit]]
\* torch.zeros(size=(rows, cols)).
Zeros(rows, cols) == [i \in 1 .. rows |-> [t \in 1 .. cols |-> Zero]]

\* Python's a[lo:hi] over n rows, as the 1-based row numbers it selects, in
\* order (lo, hi are the source's 0-based bounds, 0 <= lo; hi is clamped to n).
SliceRows(lo, hi, n) ==
    LET top == IF hi < n THEN hi ELSE n
    IN  [k \in 1 .. (IF top > lo THEN top - lo ELSE 0) |-> lo + k]

\* The rows of a[lo:hi], in order.
Slice(a, lo, hi) ==
    LET rows == SliceRows(lo, hi, Len(a))
    IN  [k \in 1 .. Len(rows) |-> a[rows[k]]]

(* ---------------------- discounted_cumsum_right ------------------------ *)
\* A value stored into a tensor of the given dtype.
Cast(x, dtype) == IF dtype = "int64" /\ IsRat(x) THEN FromInt(Trunc(x)) ELSE x

\* buffer.py lines 8-9: the locals on entry.  reward is a 1xT tensor
\* [dtype, data]; empty_like(reward[0]) gives discounted_return reward's
\* dtype, and t runs over reversed(range(reward.shape[1])).
cumsum_enter(reward) ==
    [reward |-> reward,
     discounted_return |-> [t \in 1 .. Len(reward.data[1]) |-> Uninit],
     tmp_return |-> Zero,
     t |-> Len(reward.data[1])]

\* buffer.py lines 11-12: one iteration of the loop, at (1-based) position
\* f.t.  The sum is a float (gamma is one); storing it into
\* discounted_return converts it to that tensor's dtype.
cumsum_iter(f, gamma) ==
    LET tmp_return == RAdd(f.reward.data[1][f.t], RMul(gamma, f.tmp_return))
    IN  [f EXCEPT !.tmp_return = tmp_return,
                  !.discounted_return[f.t] = Cast(tmp_return, f.reward.dtype),
                  !.t = f.t - 1]

\* buffer.py lines 10-12: the loop, run to its end.
RECURSIVE cumsum_loop(_, _)
cumsum_loop(f, gamma) ==
    IF f.t = 0 THEN f ELSE cumsum_loop(cumsum_iter(f, gamma), gamma)

\* buffer.py lines 7-13.
discounted_cumsum_right(reward, gamma) ==
    cumsum_loop(cumsum_enter(reward), gamma).discounted_return

(* ============================== Buffer ================================= *)
VARIABLES
    ptr,
    state_buffer, prompt_mask_buffer, completion_mask_buffer, reward_buffer,
    value_estimates_buffer, pi_0_logprobs_buffer, pi_t_logprobs_buffer,
    critic_targets_buffer, advantages_buffer,
    reward_augmentation_buffer, augmented_reward_buffer,
    reward_augmenter,   \* which callback the Buffer was constructed with
    gen,                \* the generator object of the Buffer.get call in progress
    yielded,            \* the minibatches the latest get call has yielded
    call                \* the last Buffer method entered and how it ended

inputs == <<state_buffer, prompt_mask_buffer, completion_mask_buffer,
            reward_buffer, value_estimates_buffer, pi_0_logprobs_buffer,
            pi_t_logprobs_buffer>>
derived == <<reward_augmentation_buffer, augmented_reward_buffer,
             critic_targets_buffer, advantages_buffer>>
bufvars == <<ptr, inputs, derived, reward_augmenter, gen, yielded, call>>

\* The seven arguments of Buffer.store, in the order of lines 99-105.
Fields == <<"state", "prompt_mask", "completion_mask", "reward",
            "value_estimates", "pi_0_logprobs", "pi_t_logprobs">>

NoGen == [pc |-> "idle", batch_size |-> 0, gamma |-> Zero, lam |-> Zero,
          beta |-> Zero, start_idx |-> 0]
\* call: the method, the number of rows of the state argument it was handed
\* (0 for reset and get), and the exception that ended it, if one did.
Returned(op, rows) == [op |-> op, rows |-> rows, raised |-> "none"]
Raised(op, rows, type) == [op |-> op, rows |-> rows, raised |-> type]

\* buffer.py lines 20-56: Buffer.__init__.
BufferInit ==
    /\ ptr = 0
    /\ state_buffer = Empty(max_episodes, max_ep_length)
    /\ prompt_mask_buffer = Empty(max_episodes, max_ep_length)
    /\ completion_mask_buffer = Empty(max_episodes, max_ep_length)
    /\ reward_buffer = Empty(max_episodes, max_ep_length)
    /\ value_estimates_buffer = Empty(max_episodes, max_ep_length)
    /\ pi_0_logprobs_buffer = Empty(max_episodes, max_ep_length)
    /\ pi_t_logprobs_buffer = Empty(max_episodes, max_ep_length)
    /\ critic_targets_buffer = Empty(max_episodes, max_ep_length)
    /\ advantages_buffer = Empty(max_episodes, max_ep_length)
    /\ reward_augmentation_buffer = Zeros(max_episodes, max_ep_length)
    /\ augmented_reward_buffer = Empty(max_episodes, max_ep_length)
    /\ gen = NoGen
    /\ yielded = <<>>
    /\ call = Returned("__init__", 0)

(* ---------------------- the rollouts fed to store ---------------------- *)
\* Two episodes; element t (1-based) of each field of episode k.
\*   1: one prompt token, then completion to the end, terminal reward 5
\*      (for max_ep_length = 3: completion_mask [0,1,1], reward [0,0,5])
\*   2: two prompt tokens, then padding: no completion at all, and a
\*      reward of 1 at every position
Kinds == {1, 2}

EpisodeCell(k, f, t) ==
    CASE f = "state" -> FromInt(10 * k + t)
      [] f = "prompt_mask" -> FromInt(IF t = 1 \/ (k = 2 /\ t = 2) THEN 1 ELSE 0)
      [] f = "completion_mask" -> FromInt(IF k = 1 /\ t >= 2 THEN 1 ELSE 0)
      [] f = "reward" ->
            FromInt(IF k = 2 THEN 1 ELSE IF t >= max_ep_length THEN 5 ELSE 0)
      [] f = "value_estimates" -> FromInt(t)
      [] f = "pi_0_logprobs" -> FromInt(IF k = 1 THEN -1 ELSE -2)
      [] f = "pi_t_logprobs" -> FromInt(IF k = 1 THEN -3 ELSE -2)

\* How one argument's shape departs from (B, max_ep_length): one dimension
\* only, one row too many, one column too many, or a single column.
Defects == {"ndim1", "batch", "width", "width1"}
NoDefect == <<"none", "none">>

ArgShape(B, f, defect) ==
    IF defect[1] # f THEN <<B, max_ep_length>>
    ELSE CASE defect[2] = "ndim1" -> <<B>>
           [] defect[2] = "batch" -> <<B + 1, max_ep_length>>
           [] defect[2] = "width" -> <<B, max_ep_length + 1>>
           [] defect[2] = "width1" -> <<B, 1>>

\* The argument f of a store call handing over the episodes of `batch`.
Arg(batch, f, defect) ==
    LET shape == ArgShape(Len(batch), f, defect)
    IN  [shape |-> shape,
         data |-> IF Len(shape) # 2 THEN <<>>
                  ELSE [i \in 1 .. shape[1] |->
                          [t \in 1 .. shape[2] |->
                              EpisodeCell(IF i <= Len(batch) THEN batch[i] ELSE 1, f, t)]]]

StoreArgs(batch, defect) ==
    [state |-> Arg(batch, "state", defect),
     prompt_mask |-> Arg(batch, "prompt_mask", defect),
     completion_mask |-> Arg(batch, "completion_mask", defect),
     reward |-> Arg(batch, "reward", defect),
     value_estimates |-> Arg(batch, "value_estimates", defect),
     pi_0_logprobs |-> Arg(batch, "pi_0_logprobs", defect),
     pi_t_logprobs |-> Arg(batch, "pi_t_logprobs", defect)]

\* The store calls explored: every batch of 0 .. MaxBatch episodes with
\* well-formed arguments, and a one-episode batch with any one argument
\* misshapen in any one way (a single column only for reward, the one
\* argument whose width store never compares with max_ep_length).
Batches == UNION {[1 .. n -> Kinds] : n \in 0 .. MaxBatch}
WellFormedCalls == {<<b, NoDefect>> : b \in Batches}
MalformedCalls ==
    {<<(<<2>>), <<Fields[i], d>>>> : i \in 1 .. 7, d \in Defects \ {"width1"}}
    \cup {<<(<<2>>), <<"reward", "width1">>>>}
StoreCalls == WellFormedCalls \cup MalformedCalls

(* ---------------------------- Buffer.store ----------------------------- *)
OverflowsOffByOne(p, batch_size) == ~(p + batch_size <= max_episodes + 1)

\* buffer.py line 84, negated: the batch does not fit behind the cursor.
Overflows(p, batch_size) == ~(p + batch_size <= max_episodes)

\* buffer.py lines 67-91: the line of the first assert that fails, 0 if none.
FailedAssert(x, p) ==
    IF Len(x.state.shape) # 2 THEN 67
    ELSE IF Len(x.prompt_mask.shape) # 2 THEN 68
    ELSE IF Len(x.completion_mask.shape) # 2 THEN 69
    ELSE IF Len(x.reward.shape) # 2 THEN 70
    ELSE IF Len(x.value_estimates.shape) # 2 THEN 71
    ELSE IF Len(x.pi_0_logprobs.shape) # 2 THEN 72
    ELSE IF Len(x.pi_t_logprobs.shape) # 2 THEN 73
    ELSE LET batch_size == x.state.shape[1]
         IN  IF x.prompt_mask.shape[1] # batch_size THEN 76
             ELSE IF x.completion_mask.shape[1] # batch_size THEN 77
             ELSE IF x.reward.shape[1] # batch_size THEN 78
             ELSE IF x.value_estimates.shape[1] # batch_size THEN 79
             ELSE IF x.pi_0_logprobs.shape[1] # batch_size THEN 80
             ELSE IF x.pi_t_logprobs.shape[1] # batch_size THEN 81
             ELSE IF Overflows(p, batch_size) THEN 84
             ELSE IF x.state.shape[2] # max_ep_length THEN 86
             ELSE IF x.prompt_mask.shape[2] # max_ep_length THEN 87
             ELSE IF x.completion_mask.shape[2] # max_ep_length THEN 88
             ELSE IF x.value_estimates.shape[2] # max_ep_length THEN 89
             ELSE IF x.pi_0_logprobs.shape[2] # max_ep_length THEN 90
             ELSE IF x.pi_t_logprobs.shape[2] # max_ep_length THEN 91
             ELSE 0

\* Whether a (B, w) value can be assigned to the (B, max_ep_length) slice
\* buffer[ptr:ptr+B]: same width, or width 1 (broadcast along the row).
Assignable(t) == t.shape[2] = max_ep_length \/ t.shape[2] = 1

\* buffer[lo:lo+B] = t, for an assignable t.
Assign(buffer, lo, t) ==
    [i \in Rows |->
        IF lo < i /\ i <= lo + t.shape[1]
        THEN [c \in Cols |-> IF t.shape[2] = 1 THEN t.data[i - lo][1]
                                             ELSE t.data[i - lo][c]]
        ELSE buffer[i]]

\* buffer.py lines 99-105: the index in Fields of the first assignment that
\* raises (a shape that cannot be broadcast), 8 if none does.
FirstBadWrite(x) ==
    LET bad == {i \in 1 .. 7 : ~Assignable(x[Fields[i]])}
    IN  IF bad = {} THEN 8 ELSE CHOOSE i \in bad : \A j \in bad : i <= j

\* The buffer of argument number i after the assignments of a store call
\* whose first failing assignment is number bad.
Stored(buffer, i, x, bad) ==
    IF i < bad THEN Assign(buffer, ptr, x[Fields[i]]) ELSE buffer

\* buffer.py lines 59-110: Buffer.store.
Store(x) ==
    /\ gen.pc = "idle"
    /\ LET failed == FailedAssert(x, ptr)
       IN  IF failed # 0
           THEN /\ call' = Raised("store", x.state.shape[1], "AssertionError")
                /\ UNCHANGED <<ptr, inputs>>
           ELSE LET bad == FirstBadWrite(x)
                IN  /\ state_buffer' = Stored(state_buffer, 1, x, bad)
                    /\ prompt_mask_buffer' = Stored(prompt_mask_buffer, 2, x, bad)
                    /\ completion_mask_buffer' = Stored(completion_mask_buffer, 3, x, bad)
                    /\ reward_buffer' = Stored(reward_buffer, 4, x, bad)
                    /\ value_estimates_buffer' = Stored(value_estimates_buffer, 5, x, bad)
                    /\ pi_0_logprobs_buffer' = Stored(pi_0_logprobs_buffer, 6, x, bad)
                    /\ pi_t_logprobs_buffer' = Stored(pi_t_logprobs_buffer, 7, x, bad)
                    /\ IF bad = 8
                       THEN /\ ptr' = ptr + x.state.shape[1]
                            /\ call' = Returned("store", x.state.shape[1])
                       ELSE /\ ptr' = ptr
                            /\ call' = Raised("store", x.state.shape[1], "RuntimeError")
    /\ yielded' = <<>>
    /\ UNCHANGED <<derived, reward_augmenter, gen>>

\* buffer.py lines 157-158: Buffer.reset.
Reset ==
    /\ gen.pc = "idle"
    /\ ptr' = 0
    /\ call' = Returned("reset", 0)
    /\ yielded' = <<>>
    /\ UNCHANGED <<inputs, derived, reward_augmenter, gen>>

(* ----------------------------- Buffer.get ------------------------------ *)
\* Elementwise a * b and a + c * b over (rows, cols) tensors.
TMul(a, b) == [i \in Rows |-> [t \in Cols |-> RMul(a[i][t], b[i][t])]]
TAddScaled(a, c, b) ==
    [i \in Rows |-> [t \in Cols |-> RAdd(a[i][t], RMul(c, b[i][t]))]]

\* buffer.py lines 15-16: default_reward_augmenter.
default_reward_augmenter == Zeros(max_episodes, max_ep_length)

\* ppo_trainer.py lines 93-94: naive_logprob_augmenter,
\* -((pi_t_logprobs - pi_0_logprobs) ** 2) / 2.
naive_logprob_augmenter ==
    [i \in Rows |-> [t \in Cols |->
        LET d == RSub(pi_t_logprobs_buffer[i][t], pi_0_logprobs_buffer[i][t])
        IN  RDivInt(RSub(Zero, RMul(d, d)), 2)]]

Augmenters == {"default_reward_augmenter", "naive_logprob_augmenter"}

\* buffer.py line 129: self.reward_augmenter(self), as the tensor it leaves
\* in reward_augmentation_buffer.
Augmented ==
    IF reward_augmenter = "default_reward_augmenter"
    THEN default_reward_augmenter ELSE naive_logprob_augmenter

\* buffer.py line 130, given the augmentation tensor aug.
AugmentedReward(aug, beta) == TAddScaled(reward_buffer, beta, aug)

ZerodRewardsUnmasked(augmented_reward) == augmented_reward

\* buffer.py lines 168 / 180: completion_mask_buffer * augmented_reward_buffer
\* (long * float32 gives float32).
ZerodRewards(augmented_reward) == TMul(completion_mask_buffer, augmented_reward)

\* One row as the 1xT float32 tensor row.unsqueeze(0).
Unsqueeze(row) == [dtype |-> "float32", data |-> <<row>>]

\* buffer.py lines 161-171: _compute_critic_targets.
compute_critic_targets(augmented_reward, gamma) ==
    LET zerod_rewards == ZerodRewards(augmented_reward)
    IN  [idx \in Rows |->
            discounted_cumsum_right(Unsqueeze(zerod_rewards[idx]), gamma)]

\* buffer.py line 181: func.pad(value_estimates_buffer, (1, 0)), one zero
\* in front of every row.
padded_value_estimates ==
    [i \in Rows |-> <<Zero>> \o value_estimates_buffer[i]]

\* buffer.py lines 182-185: zerod_deltas.
ZerodDeltas(augmented_reward, gamma) ==
    LET zeord_rewards == ZerodRewards(augmented_reward)
        padded == padded_value_estimates
        deltas == [i \in Rows |-> [t \in Cols |->
                     RSub(RAdd(zeord_rewards[i][t], RMul(gamma, padded[i][t + 1])),
                          padded[i][t])]]
    IN  TMul(completion_mask_buffer, deltas)

compute_advantages_without_lam(augmented_reward, gamma, lam) ==
    LET zerod_deltas == ZerodDeltas(augmented_reward, gamma)
    IN  [idx \in Rows |->
            discounted_cumsum_right(Unsqueeze(zerod_deltas[idx]), gamma)]

\* buffer.py lines 174-188: _compute_advantages.
compute_advantages(augmented_reward, gamma, lam) ==
    LET zerod_deltas == ZerodDeltas(augmented_reward, gamma)
    IN  [idx \in Rows |->
            discounted_cumsum_right(Unsqueeze(zerod_deltas[idx]), RMul(gamma, lam))]

\* row.mean(): the sum over the row divided by its length.
Mean(row) == RDivInt(RSum(row, Len(row)), Len(row))

\* row.std(): torch's default is the unbiased estimator; the value here is
\* the variance sum((x - mean)^2) / (T - 1), whose square root std is; a
\* row of one element gives 0/0.
Variance(row) ==
    LET mu == Mean(row)
        sq == [t \in 1 .. Len(row) |-> RMul(RSub(row[t], mu), RSub(row[t], mu))]
    IN  IF Len(row) = 1 THEN NaN ELSE RDivInt(RSum(sq, Len(row)), Len(row) - 1)

QuotientGuarded(x, mu, var) ==
    LET num == RSub(x, mu)
    IN  IF ~IsRat(num) \/ ~IsRat(var) THEN Poison(num, var)
        ELSE IF var = Zero THEN Zero
        ELSE LET q == RMul(RMul(num, num), RInv(var))
             IN  <<IF num[1] > 0 THEN 1 ELSE IF num[1] < 0 THEN -1 ELSE 0,
                   q[1], q[2]>>

\* (x - mu) / sigma with sigma = sqrt(var).  0 / 0 is NaN; a finite
\* quotient is the real number s * sqrt(n / d), written <<s, n, d>> with
\* s its sign and n / d = (x - mu)^2 / var in lowest terms.
Quotient(x, mu, var) ==
    LET num == RSub(x, mu)
    IN  IF ~IsRat(num) \/ ~IsRat(var) THEN Poison(num, var)
        ELSE IF var = Zero THEN NaN
        ELSE LET q == RMul(RMul(num, num), RInv(var))
             IN  <<IF num[1] > 0 THEN 1 ELSE IF num[1] < 0 THEN -1 ELSE 0,
                   q[1], q[2]>>

\* buffer.py lines 136-137: mu and sigma along dim=-1, one per row.
Standardised(adv) ==
    [i \in Rows |-> [t \in Cols |->
        Quotient(adv[i][t], Mean(adv[i]), Variance(adv[i]))]]

\* The arguments of the get calls explored: every batch_size in
\* 1 .. max_episodes, with gamma = lam = 1 and no augmentation weight, and
\* with gamma = lam = 1/2 and augmentation weight 1.
GetParams ==
    {[gamma |-> One, lam |-> One, beta |-> Zero],
     [gamma |-> Half, lam |-> Half, beta |-> One]}
BatchSizes == 1 .. max_episodes

IsFullOrPastFirstRow(p) == p > 0

\* buffer.py line 127: the buffer is exactly full.
IsFull(p) == p = max_episodes

\* buffer.py line 113: calling get builds the generator; none of its body
\* runs before the first next().
GetCall(batch_size, gamma, lam, beta) ==
    /\ gen.pc = "idle"
    /\ gen' = [pc |-> "created", batch_size |-> batch_size, gamma |-> gamma,
               lam |-> lam, beta |-> beta, start_idx |-> 0]
    /\ yielded' = <<>>
    /\ call' = Returned("get", 0)
    /\ UNCHANGED <<ptr, inputs, derived, reward_augmenter>>

\* buffer.py lines 127-133, run by the first next(): the fullness assert,
\* then the augmentation, the critic targets and the raw advantages.
GetEnter ==
    /\ gen.pc = "created"
    /\ IF ~IsFull(ptr)
       THEN /\ gen' = NoGen
            /\ call' = Raised("get", 0, "AssertionError")
            /\ UNCHANGED derived
       ELSE /\ reward_augmentation_buffer' = Augmented
            /\ augmented_reward_buffer' = AugmentedReward(Augmented, gen.beta)
            /\ critic_targets_buffer' =
                   compute_critic_targets(AugmentedReward(Augmented, gen.beta), gen.gamma)
            /\ advantages_buffer' =
                   compute_advantages(AugmentedReward(Augmented, gen.beta),
                                      gen.gamma, gen.lam)
            /\ gen' = [gen EXCEPT !.pc = "normalise"]
            /\ UNCHANGED call
    /\ UNCHANGED <<ptr, inputs, reward_augmenter, yielded>>

\* buffer.py lines 136-137, then the loop of line 139 starts at row 0.
GetNormalise ==
    /\ gen.pc = "normalise"
    /\ advantages_buffer' = Standardised(advantages_buffer)
    /\ gen' = [gen EXCEPT !.pc = "loop", !.start_idx = 0]
    /\ UNCHANGED <<ptr, inputs, reward_augmentation_buffer, augmented_reward_buffer,
                   critic_targets_buffer, reward_augmenter, yielded, call>>

\* One sliced field of a minibatch: the rows it views and their content.
View(buffer, start_idx, end_idx) ==
    [rows |-> SliceRows(start_idx, end_idx, Len(buffer)),
     data |-> Slice(buffer, start_idx, end_idx)]

\* buffer.py lines 142-155: the dictionary of one minibatch.
Minibatch(start_idx, end_idx) ==
    [ids |-> View(state_buffer, start_idx, end_idx),
     prompt_mask |-> View(prompt_mask_buffer, start_idx, end_idx),
     completion_mask |-> View(completion_mask_buffer, start_idx, end_idx),
     reward |-> View(reward_buffer, start_idx, end_idx),
     value_estimates |-> View(value_estimates_buffer, start_idx, end_idx),
     pi_0_logprobs |-> View(pi_0_logprobs_buffer, start_idx, end_idx),
     pi_t_logprobs |-> View(pi_t_logprobs_buffer, start_idx, end_idx),
     critic_targets |-> View(critic_targets_buffer, start_idx, end_idx),
     advantages |-> View(advantages_buffer, start_idx, end_idx),
     augmented_reward |-> View(augmented_reward_buffer, start_idx, end_idx)]

EndIdxOneFurther(start_idx, batch_size) == start_idx + batch_size + 1

\* buffer.py line 140.
EndIdx(start_idx, batch_size) == start_idx + batch_size

\* buffer.py lines 139-155: one iteration of the loop, up to its yield.
GetYield ==
    /\ gen.pc = "loop"
    /\ gen.start_idx < max_episodes
    /\ yielded' = Append(yielded,
                     Minibatch(gen.start_idx, EndIdx(gen.start_idx, gen.batch_size)))
    /\ gen' = [gen EXCEPT !.start_idx = gen.start_idx + gen.batch_size]
    /\ UNCHANGED <<ptr, inputs, derived, reward_augmenter, call>>

GetReturnRewinding ==
    /\ gen.pc = "loop"
    /\ gen.start_idx >= max_episodes
    /\ gen' = NoGen
    /\ ptr' = 0
    /\ UNCHANGED <<inputs, derived, reward_augmenter, yielded, call>>

\* buffer.py line 139: range(0, max_episodes, batch_size) is used up and the
\* generator returns.
GetReturn ==
    /\ gen.pc = "loop"
    /\ gen.start_idx >= max_episodes
    /\ gen' = NoGen
    /\ UNCHANGED <<ptr, inputs, derived, reward_augmenter, yielded, call>>

(* ================ discounted_cumsum_right, step by step ================ *)
VARIABLES
    cumsum_x,       \* the caller's tensor, as it was when the call was made
    cumsum_gamma,   \* the gamma argument
    cumsum_frame,   \* the locals of the call: reward, discounted_return, tmp_return, t
    cumsum_pc,      \* "idle", "loop" or "returned"
    cumsum_result   \* the returned tensor

cumsumvars == <<cumsum_x, cumsum_gamma, cumsum_frame, cumsum_pc, cumsum_result>>

\* The 1xT tensors and the discounts the function is called with.
CumsumValues == {1, 2, 3}
CumsumDtypes == {"float32", "int64"}
CumsumInputs ==
    {[dtype |-> d, data |-> <<[t \in DOMAIN row |-> FromInt(row[t])]>>] :
        d \in CumsumDtypes,
        row \in UNION {[1 .. n -> CumsumValues] : n \in 1 .. max_ep_length}}
CumsumGammas == {One, Half}

\* No call of discounted_cumsum_right in progress.
NoCumsum ==
    /\ cumsum_x = [dtype |-> "float32", data |-> <<>>]
    /\ cumsum_gamma = Zero
    /\ cumsum_frame = <<>>
    /\ cumsum_pc = "idle"
    /\ cumsum_result = <<>>

\* buffer.py lines 7-9: the call, up to the head of the loop.
CumsumEnter(x, gamma) ==
    /\ cumsum_x = x
    /\ cumsum_gamma = gamma
    /\ cumsum_frame = cumsum_enter(x)
    /\ cumsum_pc = "loop"
    /\ cumsum_result = <<>>

\* buffer.py lines 10-12: one iteration of the loop.
CumsumIter ==
    /\ cumsum_pc = "loop"
    /\ cumsum_frame.t > 0
    /\ cumsum_frame' = cumsum_iter(cumsum_frame, cumsum_gamma)
    /\ UNCHANGED <<cumsum_x, cumsum_gamma, cumsum_pc, cumsum_result>>

\* buffer.py line 13.
CumsumReturn ==
    /\ cumsum_pc = "loop"
    /\ cumsum_frame.t = 0
    /\ cumsum_result' = cumsum_frame.discounted_return
    /\ cumsum_pc' = "returned"
    /\ UNCHANGED <<cumsum_x, cumsum_gamma, cumsum_frame>>

(* ============================= PPOTrainer ============================== *)
\* ppo_trainer.py lines 21-26: PPOTrainer.__init__'s loop counts and batch
\* sizes, as the trainer of this model is constructed.
num_epochs == 2
actor_train_batch_size == 2
actor_train_iters == 2
critic_train_batch_size == 3
critic_train_iters == 2
\* ppo_trainer.py lines 33-34: the defaults.
save_steps == 50
log_steps == 1
\* ppo_trainer.py lines 28-32 and 60-64: the real-valued hyperparameters.
self == [target_kl |-> Rat(1, 20), gamma |-> Half, lam |-> Half, beta |-> One]

VARIABLES
    tpc,                 \* where PPOTrainer.train stands
    epoch, rollout_batch_idx, actor_train_step, critic_train_step,
    average_actor_loss_info, average_critic_loss_info,
    actor_optimizer,     \* [steps: optimizer steps taken, grad: backward
    critic_optimizer,    \*  passes accumulated since the last zero_grad]
    actor_lr_scheduler,  \* the number of scheduler steps taken
    critic_lr_scheduler,
    rolling_average_logging_vals,
    collected_rewards,
    stdout,              \* what train has printed
    stored_epoch         \* history: the epoch in which train stored each
                         \* row of the Buffer, -1 before it stored any

loopvars == <<epoch, rollout_batch_idx, actor_train_step, critic_train_step>>
lossvars == <<average_actor_loss_info, average_critic_loss_info>>
optvars == <<actor_optimizer, critic_optimizer>>
schedvars == <<actor_lr_scheduler, critic_lr_scheduler>>
logvars == <<rolling_average_logging_vals, collected_rewards>>
trainvars == <<tpc, loopvars, lossvars, optvars, schedvars, logvars, stdout, stored_epoch>>

\* An empty dict.
EmptyDict == [k \in {} |-> Zero]

\* ppo_trainer.py lines 46-100: PPOTrainer.__init__, before train is called.
TrainerInit ==
    /\ tpc = "epoch"
    /\ epoch = 0
    /\ rollout_batch_idx = 0
    /\ actor_train_step = 0
    /\ critic_train_step = 0
    /\ average_actor_loss_info = EmptyDict
    /\ average_critic_loss_info = EmptyDict
    /\ actor_optimizer = [steps |-> 0, grad |-> 0]
    /\ critic_optimizer = [steps |-> 0, grad |-> 0]
    /\ actor_lr_scheduler = 0
    /\ critic_lr_scheduler = 0
    /\ rolling_average_logging_vals = EmptyDict
    /\ collected_rewards = <<>>
    /\ stdout = <<>>
    /\ stored_epoch = [r \in Rows |-> -1]

\* ppo_trainer.py lines 154-185: get_rollout returns rollout_batch_size
\* episodes of max_ep_length tokens, whatever the environment and the
\* networks made them.
get_rollout == {b \in Batches : Len(b) = rollout_batch_size}

\* a.masked_select(mask.to(torch.bool)): the elements of a where mask is
\* not zero, in row-major order.
masked_select(a, mask) ==
    LET T == max_ep_length
        all == [k \in 1 .. Len(mask) * T |-> <<((k - 1) \div T) + 1, ((k - 1) % T) + 1>>]
        sel == SelectSeq(all, LAMBDA p : mask[p[1]][p[2]] # Zero)
    IN  [k \in 1 .. Len(sel) |-> a[sel[k][1]][sel[k][2]]]

\* x.mean() of a 1-D tensor: 0/0 when it has no element.
TensorMean(x) == IF Len(x) = 0 THEN NaN ELSE Mean(x)

\* What the actor network contributes to compute_actor_loss: the mean over
\* the completion tokens of logprobs - pi_t_logprobs, and the mean entropy.
KldValues == {Zero, Rat(3, 40), Rat(1, 10)}
Entropies == {One}

\* ppo_trainer.py lines 103-130: the loss info of compute_actor_loss.  With
\* kld_t the mean of logprobs - pi_t_logprobs over the completion tokens,
\* the mean of logprobs - pi_0_logprobs over the same tokens is kld_t plus
\* the mean of pi_t_logprobs - pi_0_logprobs; a minibatch without
\* completion tokens gives the means of empty tensors.
compute_actor_loss(data, kld_t, entropy) ==
    LET mask == data.completion_mask.data
        shift == [i \in 1 .. Len(mask) |-> [t \in Cols |->
                    RSub(data.pi_t_logprobs.data[i][t], data.pi_0_logprobs.data[i][t])]]
        selected == masked_select(shift, mask)
    IN  [k \in {"kld_t-1", "kld_0", "entropy"} |->
            IF Len(selected) = 0 THEN NaN
            ELSE CASE k = "kld_t-1" -> kld_t
                   [] k = "kld_0" -> RAdd(kld_t, TensorMean(selected))
                   [] k = "entropy" -> entropy]

\* ppo_trainer.py lines 133-151: the loss info of compute_critic_loss.
MaeValues == {Zero, One}
compute_critic_loss(data, mae) ==
    LET mask == data.completion_mask.data
        selected == masked_select(data.critic_targets.data, mask)
    IN  [k \in {"mae"} |-> IF Len(selected) = 0 THEN NaN ELSE mae]

\* ppo_trainer.py lines 214-218: the values of actor_loss_info are appended
\* to the lists of average_actor_loss_info, key by key.
AccumulateActor(average, info) ==
    [k \in DOMAIN average \cup DOMAIN info |->
        IF k \notin DOMAIN info THEN average[k]
        ELSE IF k \in DOMAIN average THEN Append(average[k], info[k])
        ELSE <<info[k]>>]

\* ppo_trainer.py lines 243-247: the loop runs over the items of
\* average_critic_loss_info itself, appending each list to itself.
AccumulateCritic(average, info) ==
    [k \in DOMAIN average |-> Append(average[k], average[k])]

\* ppo_trainer.py lines 220-221 / 249-250: sum(v) / len(v) for every key.
Averaged(average) ==
    [k \in DOMAIN average |->
        RDivInt(RSum(average[k], Len(average[k])), Len(average[k]))]

ExceedsTargetKlWithoutMargin(kld) == RGt(kld, self.target_kl)

\* ppo_trainer.py line 223: kld > 1.5 * self.target_kl (false for NaN).
ExceedsTargetKl(kld) == RGt(kld, RMul(Rat(3, 2), self.target_kl))

\* x.sum(axis=-1) of a (rows, cols) tensor.
RowSums(buffer) == [i \in Rows |-> RSum(buffer[i], Len(buffer[i]))]

\* x.std() of a 1-D tensor, as <<sgn, n, d>> = sgn * sqrt(n / d).
Std(x) ==
    LET v == Variance(x)
    IN  IF IsRat(v) THEN <<IF v[1] = 0 THEN 0 ELSE 1, v[1], v[2]>> ELSE v

\* buffer.py lines 190-197: Buffer.summary.
summary ==
    [reward_mean |-> Mean(RowSums(reward_buffer)),
     reward_std |-> Std(RowSums(reward_buffer)),
     augmented_reward |-> Mean(RowSums(augmented_reward_buffer)),
     completion_length_mean |-> Mean(RowSums(completion_mask_buffer)),
     completion_length_std |-> Std(RowSums(completion_mask_buffer))]

\* ppo_trainer.py lines 275-281: PPOTrainer.log.  A rolling average is held
\* as the sequence v1, ..., vn of the values logged under its key, of which
\* it is the fold r1 = v1, r(i+1) = (1 - log_smoothing_val) * v(i+1) +
\* log_smoothing_val * r(i).
log(vals, data) ==
    [k \in DOMAIN vals \cup DOMAIN data |->
        IF k \notin DOMAIN data THEN vals[k]
        ELSE IF k \in DOMAIN vals THEN Append(vals[k], data[k])
        ELSE <<data[k]>>]

TrainEpochWithoutReset ==
    /\ tpc = "epoch"
    /\ epoch < num_epochs
    /\ rollout_batch_idx' = 0
    /\ tpc' = "rollout"
    /\ UNCHANGED <<bufvars, epoch, actor_train_step, critic_train_step, lossvars,
                   optvars, schedvars, logvars, stdout, stored_epoch>>

\* ppo_trainer.py lines 191-193: an epoch starts with Buffer.reset.
TrainEpoch ==
    /\ tpc = "epoch"
    /\ epoch < num_epochs
    /\ Reset
    /\ rollout_batch_idx' = 0
    /\ tpc' = "rollout"
    /\ UNCHANGED <<epoch, actor_train_step, critic_train_step, lossvars,
                   optvars, schedvars, logvars, stdout, stored_epoch>>

\* ppo_trainer.py line 191: range(num_epochs) is used up, train returns.
TrainReturn ==
    /\ tpc = "epoch"
    /\ epoch >= num_epochs
    /\ tpc' = "returned"
    /\ UNCHANGED <<bufvars, loopvars, lossvars, optvars, schedvars, logvars, stdout, stored_epoch>>

\* ppo_trainer.py lines 196-200: one rollout batch is generated and stored;
\* after the last one the actor loop (line 204) starts.  An exception of
\* store ends train.
TrainRollout ==
    /\ tpc = "rollout"
    /\ \E rollout \in get_rollout : Store(StoreArgs(rollout, NoDefect))
    /\ stored_epoch' = [r \in Rows |->
           IF \E i \in 1 .. 7 : inputs'[i][r] # inputs[i][r] \/ (ptr < r /\ r <= ptr')
           THEN epoch ELSE stored_epoch[r]]
    /\ IF call'.raised # "none"
       THEN /\ tpc' = "raised"
            /\ UNCHANGED <<rollout_batch_idx, actor_train_step>>
       ELSE IF rollout_batch_idx + 1 < rollout_batches_per_epoch
       THEN /\ rollout_batch_idx' = rollout_batch_idx + 1
            /\ tpc' = "rollout"
            /\ UNCHANGED actor_train_step
       ELSE /\ tpc' = "actor"
            /\ actor_train_step' = 0
            /\ UNCHANGED rollout_batch_idx
    /\ UNCHANGED <<epoch, critic_train_step, lossvars, optvars, schedvars,
                   logvars, stdout>>

\* The first next() of a generator of Buffer.get runs its body up to the
\* first yield: lines 127-133, then lines 136-137 of buffer.py.  A failed
\* fullness assert ends train.
FirstNext ==
    /\ GetEnter \/ GetNormalise
    /\ tpc' = IF call'.raised # "none" THEN "raised" ELSE tpc
    /\ UNCHANGED <<loopvars, lossvars, optvars, schedvars, logvars, stdout, stored_epoch>>

\* ppo_trainer.py lines 204-207: an actor train iteration starts.
TrainActorGet ==
    /\ tpc = "actor"
    /\ GetCall(actor_train_batch_size, self.gamma, self.lam, self.beta)
    /\ average_actor_loss_info' = EmptyDict
    /\ tpc' = "actor_batches"
    /\ UNCHANGED <<loopvars, average_critic_loss_info, optvars, schedvars,
                   logvars, stdout, stored_epoch>>

\* ppo_trainer.py line 208, the generator computing before its first yield.
TrainActorCompute == tpc = "actor_batches" /\ FirstNext

\* ppo_trainer.py lines 208-218: one minibatch of the actor iteration.
TrainActorBatch ==
    /\ tpc = "actor_batches"
    /\ GetYield
    /\ \E kld_t \in KldValues, entropy \in Entropies :
          average_actor_loss_info' =
              AccumulateActor(average_actor_loss_info,
                  compute_actor_loss(yielded'[Len(yielded')], kld_t, entropy))
    /\ actor_optimizer' = [actor_optimizer EXCEPT !.grad = @ + 1]
    /\ UNCHANGED <<tpc, loopvars, average_critic_loss_info, critic_optimizer,
                   schedvars, logvars, stdout, stored_epoch>>

\* ppo_trainer.py lines 208 and 220-228: the generator is exhausted, the
\* loss info is averaged, and the iteration either stops the actor loop
\* early or steps the optimizer and clears the gradients.
TrainActorEnd ==
    /\ tpc = "actor_batches"
    /\ GetReturn
    /\ average_actor_loss_info' = Averaged(average_actor_loss_info)
    /\ IF ExceedsTargetKl(average_actor_loss_info'["kld_t-1"])
       THEN /\ stdout' = Append(stdout, [msg |-> "Early stopping", epoch |-> epoch,
                                         iter |-> actor_train_step])
            /\ tpc' = "actor_lr"
            /\ UNCHANGED <<actor_optimizer, actor_train_step>>
       ELSE /\ actor_optimizer' = [steps |-> actor_optimizer.steps + 1, grad |-> 0]
            /\ IF actor_train_step + 1 < actor_train_iters
               THEN actor_train_step' = actor_train_step + 1 /\ tpc' = "actor"
               ELSE UNCHANGED actor_train_step /\ tpc' = "actor_lr"
            /\ UNCHANGED stdout
    /\ UNCHANGED <<epoch, rollout_batch_idx, critic_train_step,
                   average_critic_loss_info, critic_optimizer, schedvars, logvars,
                   stored_epoch>>

\* ppo_trainer.py line 230, then the critic loop (line 233) starts.
TrainActorLr ==
    /\ tpc = "actor_lr"
    /\ actor_lr_scheduler' = actor_lr_scheduler + 1
    /\ critic_train_step' = 0
    /\ tpc' = "critic"
    /\ UNCHANGED <<bufvars, epoch, rollout_batch_idx, actor_train_step, lossvars,
                   optvars, critic_lr_scheduler, logvars, stdout, stored_epoch>>

\* ppo_trainer.py lines 233-236: a critic train iteration starts.
TrainCriticGet ==
    /\ tpc = "critic"
    /\ GetCall(critic_train_batch_size, self.gamma, self.lam, self.beta)
    /\ average_critic_loss_info' = EmptyDict
    /\ tpc' = "critic_batches"
    /\ UNCHANGED <<loopvars, average_actor_loss_info, optvars, schedvars,
                   logvars, stdout, stored_epoch>>

\* ppo_trainer.py line 237, the generator computing before its first yield.
TrainCriticCompute == tpc = "critic_batches" /\ FirstNext

\* ppo_trainer.py lines 237-247: one minibatch of the critic iteration.
TrainCriticBatch ==
    /\ tpc = "critic_batches"
    /\ GetYield
    /\ \E mae \in MaeValues :
          average_critic_loss_info' =
              AccumulateCritic(average_critic_loss_info,
                  compute_critic_loss(yielded'[Len(yielded')], mae))
    /\ critic_optimizer' = [critic_optimizer EXCEPT !.grad = @ + 1]
    /\ UNCHANGED <<tpc, loopvars, average_actor_loss_info, actor_optimizer,
                   schedvars, logvars, stdout, stored_epoch>>

\* ppo_trainer.py lines 237 and 249-253: the generator is exhausted, the
\* loss info is averaged, the optimizer steps and the gradients are cleared.
TrainCriticEnd ==
    /\ tpc = "critic_batches"
    /\ GetReturn
    /\ average_critic_loss_info' = Averaged(average_critic_loss_info)
    /\ critic_optimizer' = [steps |-> critic_optimizer.steps + 1, grad |-> 0]
    /\ IF critic_train_step + 1 < critic_train_iters
       THEN critic_train_step' = critic_train_step + 1 /\ tpc' = "critic"
       ELSE UNCHANGED critic_train_step /\ tpc' = "critic_lr"
    /\ UNCHANGED <<epoch, rollout_batch_idx, actor_train_step,
                   average_actor_loss_info, actor_optimizer, schedvars, logvars,
                   stdout, stored_epoch>>

\* ppo_trainer.py line 255.
TrainCriticLr ==
    /\ tpc = "critic_lr"
    /\ critic_lr_scheduler' = critic_lr_scheduler + 1
    /\ tpc' = "log"
    /\ UNCHANGED <<bufvars, loopvars, lossvars, optvars, actor_lr_scheduler,
                   logvars, stdout, stored_epoch>>

\* ppo_trainer.py lines 263-272: the lines printed at the end of epoch e.
Printed(e) ==
    (IF (e + 1) % log_steps = 0
     THEN <<[msg |-> "Completed epoch", epoch |-> e, iter |-> 0]>> ELSE <<>>)
    \o (IF (e + 1) % save_steps = 0
        THEN <<[msg |-> "Saved model", epoch |-> e, iter |-> 0]>> ELSE <<>>)

\* ppo_trainer.py lines 258-272: the logging that ends an epoch.
TrainLog ==
    /\ tpc = "log"
    /\ collected_rewards' = Append(collected_rewards, summary.reward_mean)
    /\ rolling_average_logging_vals' =
           log(log(log(rolling_average_logging_vals, summary),
                   average_actor_loss_info),
               average_critic_loss_info)
    /\ stdout' = stdout \o Printed(epoch)
    /\ epoch' = epoch + 1
    /\ tpc' = "epoch"
    /\ UNCHANGED <<bufvars, rollout_batch_idx, actor_train_step, critic_train_step,
                   lossvars, optvars, schedvars, stored_epoch>>

(* --------------------------- specifications ---------------------------- *)
vars == <<bufvars, cumsumvars, trainvars>>

\* A Buffer and calls of its methods with well-formed arguments, in any
\* order.
Init ==
    /\ BufferInit
    /\ reward_augmenter \in Augmenters
    /\ NoCumsum
    /\ TrainerInit

StoreAny == \E c \in WellFormedCalls : Store(StoreArgs(c[1], c[2]))
GetCallAny ==
    \E batch_size \in BatchSizes, p \in GetParams :
        GetCall(batch_size, p.gamma, p.lam, p.beta)

Next ==
    \/ StoreAny /\ UNCHANGED <<cumsumvars, trainvars>>
    \/ Reset /\ UNCHANGED <<cumsumvars, trainvars>>
    \/ GetCallAny /\ UNCHANGED <<cumsumvars, trainvars>>
    \/ GetEnter /\ UNCHANGED <<cumsumvars, trainvars>>
    \/ GetNormalise /\ UNCHANGED <<cumsumvars, trainvars>>
    \/ GetYield /\ UNCHANGED <<cumsumvars, trainvars>>
    \/ GetReturn /\ UNCHANGED <<cumsumvars, trainvars>>

Spec == Init /\ [][Next]_vars

\* A Buffer that is filled and reset, by store calls whose arguments may be
\* misshapen.
StoreMalformed == \E c \in MalformedCalls : Store(StoreArgs(c[1], c[2]))

StoreNext ==
    \/ StoreAny /\ UNCHANGED <<cumsumvars, trainvars>>
    \/ StoreMalformed /\ UNCHANGED <<cumsumvars, trainvars>>
    \/ Reset /\ UNCHANGED <<cumsumvars, trainvars>>

SpecStore == Init /\ [][StoreNext]_vars

\* One call of discounted_cumsum_right on each input.
CumsumInit ==
    /\ BufferInit
    /\ reward_augmenter = "default_reward_augmenter"
    /\ TrainerInit
    /\ \E x \in CumsumInputs, gamma \in CumsumGammas : CumsumEnter(x, gamma)

CumsumNext ==
    \/ CumsumIter /\ UNCHANGED <<bufvars, trainvars>>
    \/ CumsumReturn /\ UNCHANGED <<bufvars, trainvars>>

SpecCumsum == CumsumInit /\ [][CumsumNext]_vars

\* PPOTrainer.train, run once on a new trainer (whose Buffer is constructed
\* with naive_logprob_augmenter, ppo_trainer.py lines 95-100).
TrainInit ==
    /\ BufferInit
    /\ reward_augmenter = "naive_logprob_augmenter"
    /\ NoCumsum
    /\ TrainerInit

TrainNext ==
    \/ TrainEpoch /\ UNCHANGED cumsumvars
    \/ TrainRollout /\ UNCHANGED cumsumvars
    \/ TrainActorGet /\ UNCHANGED cumsumvars
    \/ TrainActorCompute /\ UNCHANGED cumsumvars
    \/ TrainActorBatch /\ UNCHANGED cumsumvars
    \/ TrainActorEnd /\ UNCHANGED cumsumvars
    \/ TrainActorLr /\ UNCHANGED cumsumvars
    \/ TrainCriticGet /\ UNCHANGED cumsumvars
    \/ TrainCriticCompute /\ UNCHANGED cumsumvars
    \/ TrainCriticBatch /\ UNCHANGED cumsumvars
    \/ TrainCriticEnd /\ UNCHANGED cumsumvars
    \/ TrainCriticLr /\ UNCHANGED cumsumvars
    \/ TrainLog /\ UNCHANGED cumsumvars
    \/ TrainReturn /\ UNCHANGED cumsumvars

SpecTrain == TrainInit /\ [][TrainNext]_vars

(* =============================== claims ================================ *)
\* The buffer that holds argument number i of store.
InputBuffer(i) == inputs[i]

\* A step of Buffer.store / Buffer.reset / Buffer.get's generator.
IsStoreStep == gen.pc = "idle" /\ gen'.pc = "idle" /\ call'.op = "store"
IsResetStep == gen.pc = "idle" /\ gen'.pc = "idle" /\ call'.op = "reset"
IsGetStep == gen.pc # "idle" \/ gen'.pc # "idle"

\* Row r of every input tensor holds episode k, as a well-formed store of
\* that episode leaves it.
C1_HoldsEpisode(r, k) ==
    \A i \in 1 .. 7 : \A t \in Cols :
        InputBuffer(i)'[r][t] = EpisodeCell(k, Fields[i], t)

\* C1: under any sequence of store, reset and get calls 0 <= ptr <=
\* max_episodes; a store of B rows succeeds only when ptr + B <= max_episodes
\* and then writes exactly rows [ptr, ptr+B) (each with one episode of the
\* batch, no other row of any input tensor changing) and advances ptr by B;
\* a store with ptr + B > max_episodes fails and leaves ptr unchanged, as
\* every failing store does; reset sets ptr to 0.
C1_PtrWithinCapacity ==
    /\ [](ptr \in 0 .. max_episodes)
    /\ [][/\ IsResetStep => ptr' = 0
          /\ IsStoreStep =>
                LET B == call'.rows
                IN  /\ call'.raised = "none" =>
                        /\ ptr + B <= max_episodes
                        /\ ptr' = ptr + B
                        /\ \A r \in Rows :
                              IF ptr < r /\ r <= ptr + B
                              THEN \E k \in Kinds : C1_HoldsEpisode(r, k)
                              ELSE \A i \in 1 .. 7 : InputBuffer(i)'[r] = InputBuffer(i)[r]
                    /\ ptr + B > max_episodes => call'.raised # "none"
                    /\ call'.raised # "none" => ptr' = ptr]_vars

\* A store has just returned with the cursor inside the buffer: the row
\* under it is written and the one behind it has never been.
C1_Witness ==
    /\ call = Returned("store", ptr)
    /\ 0 < ptr /\ ptr < max_episodes
    /\ state_buffer[ptr][1] # Uninit
    /\ state_buffer[ptr + 1][1] = Uninit

\* C2: a get on a buffer that is not exactly full fails its precondition on
\* the first next(): it yields nothing and recomputes no derived tensor,
\* whatever rows earlier epochs left in the tensors.
C2_GetNeedsFullBuffer ==
    [][(gen.pc = "created" /\ ptr # max_episodes) =>
          /\ call' = Raised("get", 0, "AssertionError")
          /\ gen'.pc = "idle"
          /\ yielded' = <<>>
          /\ UNCHANGED <<derived, ptr, inputs>>]_vars

\* A get has failed on a partly refilled buffer: every row still holds an
\* episode and the derived tensors still hold an earlier get's results.
C2_Witness ==
    /\ call = Raised("get", 0, "AssertionError")
    /\ 0 < ptr /\ ptr < max_episodes
    /\ \A r \in Rows : reward_buffer[r][1] # Uninit
    /\ critic_targets_buffer[max_episodes][1] # Uninit

C3_Malformed(x) ==
    \E i \in 1 .. 7 :
        LET shape == x[Fields[i]].shape
        IN  IF Len(shape) # 2 THEN TRUE
            ELSE shape[1] # x.state.shape[1] \/ shape[2] # max_ep_length

\* C3: store fails with a precondition violation, before writing any row, if
\* any of its seven inputs is not 2D, has a batch dimension other than
\* state's, or has a second dimension other than max_ep_length.
C3_StoreRejectsMalformed ==
    [][\A c \in StoreCalls :
          (Store(StoreArgs(c[1], c[2])) /\ C3_Malformed(StoreArgs(c[1], c[2]))) =>
              /\ call'.raised = "AssertionError"
              /\ UNCHANGED <<ptr, inputs>>]_vars

\* The rows of minibatch number k of a get with the given batch_size.
C4_Chunk(k, batch_size) ==
    LET lo == (k - 1) * batch_size
        hi == IF k * batch_size < max_episodes THEN k * batch_size ELSE max_episodes
    IN  [j \in 1 .. hi - lo |-> lo + j]

C4_Keys ==
    {"ids", "prompt_mask", "completion_mask", "reward", "value_estimates",
     "pi_0_logprobs", "pi_t_logprobs", "critic_targets", "advantages",
     "augmented_reward"}

RECURSIVE C4_Concat(_, _)
C4_Concat(ys, key) ==
    IF ys = <<>> THEN <<>> ELSE ys[1][key].rows \o C4_Concat(Tail(ys), key)

\* C4: for a full buffer and batch_size in 1 .. max_episodes, the minibatches
\* of one get are the contiguous row ranges [k*batch_size, min((k+1)*
\* batch_size, max_episodes)) in increasing k, every field sliced to the same
\* range; only the last may be short, and together they cover every row
\* exactly once, in order.
C4_MinibatchesPartitionRows ==
    /\ gen.pc = "loop" =>
          /\ gen.start_idx = Len(yielded) * gen.batch_size
          /\ (Len(yielded) - 1) * gen.batch_size < max_episodes
          /\ \A k \in 1 .. Len(yielded) : \A key \in C4_Keys :
                /\ yielded[k][key].rows = C4_Chunk(k, gen.batch_size)
                /\ Len(yielded[k][key].data) = Len(yielded[k][key].rows)
                /\ (Len(yielded[k][key].rows) < gen.batch_size =>
                        yielded[k][key].rows[Len(yielded[k][key].rows)] = max_episodes)
    /\ (gen.pc = "idle" /\ call = Returned("get", 0)) =>
          \A key \in C4_Keys :
              C4_Concat(yielded, key) = [r \in 1 .. max_episodes |-> r]

\* A get has returned after yielding a short last minibatch.
C4_Witness ==
    /\ gen.pc = "idle" /\ call = Returned("get", 0)
    /\ Len(yielded) > 1
    /\ Len(yielded[Len(yielded)].ids.rows) < Len(yielded[1].ids.rows)

\* C5: a get on a full buffer leaves ptr and the seven stored input tensors
\* unchanged; only the derived tensors change.
C5_GetKeepsInputs ==
    [][IsGetStep => UNCHANGED <<ptr, inputs>>]_vars

\* A get on a full buffer has recomputed all four derived tensors, changing
\* what an earlier get with other arguments had left in them.
C5_Witness ==
    /\ gen.pc = "loop"
    /\ yielded # <<>>
    /\ yielded[1].advantages.data[1] = advantages_buffer[1]
    /\ gen.beta = One
    /\ augmented_reward_buffer # reward_buffer

\* The 1-based positions of one row, and m[t] = completion_mask[t] *
\* (reward[t] + beta * reward_augmentation[t]) of row i.
C9_MaskedReward(i, t, beta) ==
    RMul(completion_mask_buffer[i][t],
         RAdd(reward_buffer[i][t], RMul(beta, reward_augmentation_buffer[i][t])))

\* r[T] = x[T] and r[t] = x[t] + g * r[t+1] below it, for rows r, x of
\* length max_ep_length (1-based).
C9_Recurrence(r, x, g) ==
    \A t \in Cols :
        r[t] = IF t = max_ep_length THEN x[t] ELSE RAdd(x[t], RMul(g, r[t + 1]))

C10_Delta(i, t, gamma) ==
    LET m == RMul(completion_mask_buffer[i][t], augmented_reward_buffer[i][t])
        before == IF t = 1 THEN Zero ELSE value_estimates_buffer[i][t - 1]
    IN  RMul(completion_mask_buffer[i][t],
             RSub(RAdd(m, RMul(gamma, value_estimates_buffer[i][t])), before))

\* C10: before standardization each row's advantages are
\* discounted_cumsum_right(d, gamma * lam) of that row's own masked TD
\* residuals d; prompt and padding positions contribute a zero residual.
C10_RawAdvantagesAreGAE ==
    gen.pc = "normalise" =>
        \A i \in Rows :
            /\ C9_Recurrence(advantages_buffer[i],
                             [t \in Cols |-> C10_Delta(i, t, gen.gamma)],
                             RMul(gen.gamma, gen.lam))
            /\ \A t \in Cols :
                  completion_mask_buffer[i][t] = Zero => C10_Delta(i, t, gen.gamma) = Zero

\* Raw advantages have been computed with gamma * lam = 1/4 for a row with
\* a completion (they differ along the row) beside a row without one
\* (they are all zero).
C10_Witness ==
    /\ gen.pc = "normalise"
    /\ gen.gamma = Half /\ gen.lam = Half
    /\ \E i \in Rows :
          /\ completion_mask_buffer[i][max_ep_length] = One
          /\ advantages_buffer[i][1] # advantages_buffer[i][max_ep_length]
          /\ advantages_buffer[i][1] # Zero
    /\ \E i \in Rows : \A t \in Cols : advantages_buffer[i][t] = Zero

\* Whether all elements of a row are equal.
C8_Constant(row) == \A t \in 1 .. Len(row) : row[t] = row[1]

\* z is (x - mean(row)) / std(row), for a row that is not constant:
\* z = <<s, n, d>> stands for s * sqrt(n / d).
C8_IsStandardised(z, x, row) ==
    LET dev == RSub(x, Mean(row))
    IN  /\ Len(z) = 3
        /\ z[1] = (IF RGt(dev, Zero) THEN 1 ELSE IF RGt(Zero, dev) THEN -1 ELSE 0)
        /\ RMul(<<z[2], z[3]>>, Variance(row)) = RMul(dev, dev)

\* C8: get standardizes advantages per episode row with that row's own mean
\* and standard deviation, unguarded: a row whose raw advantages are all
\* equal (such as a row without completion) has standard deviation zero; get
\* neither fails nor skips the normalisation, that row's advantages become
\* NaN, every other row's the standardised values, and these are what the
\* minibatches carry.
C8_PerRowStandardisation ==
    /\ [][gen.pc = "normalise" =>
            /\ gen'.pc = "loop" /\ call' = call
            /\ \A i \in Rows : \A t \in Cols :
                  IF C8_Constant(advantages_buffer[i])
                  THEN advantages_buffer'[i][t] = NaN
                  ELSE C8_IsStandardised(advantages_buffer'[i][t],
                                         advantages_buffer[i][t], advantages_buffer[i])]_vars
    /\ [](gen.pc = "loop" =>
            \A k \in 1 .. Len(yielded) : \A j \in 1 .. Len(yielded[k].advantages.rows) :
                yielded[k].advantages.data[j] =
                    advantages_buffer[yielded[k].advantages.rows[j]])

\* A get has yielded a minibatch whose first row is all NaN (an episode
\* without completion) and the buffer also holds a row of finite standardised
\* advantages.
C8_Witness ==
    /\ gen.pc = "loop"
    /\ yielded # <<>>
    /\ \A t \in Cols : completion_mask_buffer[1][t] = Zero
    /\ \A t \in Cols : yielded[1].advantages.data[1][t] = NaN
    /\ \E i \in Rows : \A t \in Cols : Len(advantages_buffer[i][t]) = 3

(* ------------------------------- C6 ------------------------------------ *)
\* r is the right-to-left discounted sum of x: its last element is x's, and
\* every other one is x[t] + gamma * r[t+1].
C6_Recurrence(x, gamma, r) ==
    /\ Len(r) = Len(x)
    /\ r[Len(x)] = x[Len(x)]
    /\ \A t \in 1 .. Len(x) - 1 : r[t] = RAdd(x[t], RMul(gamma, r[t + 1]))

C7_EarlyStops(e) ==
    {i \in 1 .. Len(stdout) :
        stdout[i].msg = "Early stopping" /\ stdout[i].epoch = e}

\* The actor optimizer steps epoch e is to take once its actor loop is
\* over: the iterations before the one that stopped early, or all of them.
C7_ActorStepsOf(e) ==
    IF C7_EarlyStops(e) = {} THEN actor_train_iters
    ELSE stdout[CHOOSE i \in C7_EarlyStops(e) : TRUE].iter

RECURSIVE C7_ActorStepsBefore(_)
C7_ActorStepsBefore(e) ==
    IF e = 0 THEN 0 ELSE C7_ActorStepsBefore(e - 1) + C7_ActorStepsOf(e - 1)

\* The step of train that ends an actor iteration (lines 220-228).
C7_IsActorEnd == tpc = "actor_batches" /\ tpc' \in {"actor", "actor_lr"}

\* C7: when the average over an actor iteration's minibatches of kld_t-1
\* exceeds 1.5 * target_kl, no actor optimizer step is taken for that
\* iteration and the remaining actor iterations of the epoch are skipped,
\* while the epoch still takes all critic_train_iters critic optimizer
\* steps and the next epoch starts with its full actor_train_iters budget;
\* when the average does not exceed it, exactly one actor optimizer step
\* is taken for that iteration.
C7_EarlyStopSkipsActorOnly ==
    /\ [][C7_IsActorEnd =>
            LET kld == average_actor_loss_info["kld_t-1"]
                avg == RDivInt(RSum(kld, Len(kld)), Len(kld))
            IN  /\ Len(kld) = Len(yielded)
                /\ IF RGt(avg, RMul(Rat(3, 2), self.target_kl))
                   THEN /\ actor_optimizer'.steps = actor_optimizer.steps
                        /\ tpc' = "actor_lr"
                        /\ C7_EarlyStops(epoch)' # {}
                   ELSE /\ actor_optimizer'.steps = actor_optimizer.steps + 1
                        /\ stdout' = stdout]_vars
    /\ [](/\ \A e \in 0 .. num_epochs - 1 : Cardinality(C7_EarlyStops(e)) <= 1
          /\ tpc \in {"epoch", "rollout", "returned"} =>
                /\ actor_optimizer.steps = C7_ActorStepsBefore(epoch)
                /\ critic_optimizer.steps = epoch * critic_train_iters
          /\ tpc \in {"actor", "actor_batches"} =>
                /\ C7_EarlyStops(epoch) = {}
                /\ actor_optimizer.steps =
                       C7_ActorStepsBefore(epoch) + actor_train_step
          /\ tpc \in {"actor_lr", "critic", "critic_batches", "critic_lr", "log"} =>
                actor_optimizer.steps = C7_ActorStepsBefore(epoch + 1)
          /\ tpc \in {"critic", "critic_batches"} =>
                critic_optimizer.steps =
                    epoch * critic_train_iters + critic_train_step
          /\ tpc \in {"critic_lr", "log"} =>
                critic_optimizer.steps = (epoch + 1) * critic_train_iters)

\* train has returned; its first epoch stopped early in its last actor
\* iteration and its last epoch did not stop early.
C7_Witness ==
    /\ tpc = "returned"
    /\ \E i \in C7_EarlyStops(0) : stdout[i].iter = actor_train_iters - 1
    /\ C7_EarlyStops(num_epochs - 1) = {}
    /\ actor_optimizer.steps >= (actor_train_iters - 1) + actor_train_iters
    /\ critic_optimizer.steps = num_epochs * critic_train_iters

(* ------------------------------- C11 ----------------------------------- *)
\* train is past the rollouts of the current epoch.
C11_PastRollouts ==
    tpc \in {"actor", "actor_batches", "actor_lr", "critic", "critic_batches",
             "critic_lr", "log"}

\* C11: in every epoch of train, with rollouts of rollout_batch_size rows of
\* max_ep_length tokens, reset followed by rollout_batches_per_epoch stores
\* never trips the overflow check of store and leaves ptr = max_episodes
\* (= rollout_batch_size * rollout_batches_per_epoch) before the first get
\* of the epoch, so that no get of the epoch fails the fullness
\* precondition, and every get of the epoch, actor and critic, reads only
\* rows stored in that same epoch.
C11_EpochFillsBuffer ==
    /\ max_episodes = rollout_batch_size * rollout_batches_per_epoch
    /\ tpc # "raised"
    /\ call.raised = "none"
    /\ tpc = "rollout" =>
          /\ ptr = rollout_batch_idx * rollout_batch_size
          /\ \A r \in Rows : stored_epoch[r] = IF r <= ptr THEN epoch ELSE epoch - 1
    /\ C11_PastRollouts =>
          /\ ptr = max_episodes
          /\ \A r \in Rows : stored_epoch[r] = epoch
    /\ tpc \in {"actor_batches", "critic_batches"} =>
          \A k \in 1 .. Len(yielded) :
              \A i \in 1 .. Len(yielded[k].ids.rows) :
                  LET r == yielded[k].ids.rows[i]
                  IN  /\ stored_epoch[r] = epoch
                      /\ yielded[k].ids.data[i] = state_buffer[r]
                      /\ yielded[k].reward.data[i] = reward_buffer[r]

\* The critic of the second epoch is being handed a minibatch, every row
\* of the Buffer having been stored in the first epoch and again in the
\* second.
C11_Witness ==
    /\ epoch = 1
    /\ tpc = "critic_batches"
    /\ Len(yielded) > 0
    /\ \A r \in Rows : stored_epoch[r] = 1
    /\ ptr = max_episodes

(* ------------------------------- C12 ----------------------------------- *)
\* C12: every actor optimizer step applies gradients accumulated only from
\* the minibatches of the current actor train iteration: the actor's
\* accumulated gradient is zero at the start of every actor train
\* iteration, in every epoch, and while an iteration runs it holds one
\* backward pass for each minibatch that iteration has been handed.
C12_ActorGradFromCurrentIteration ==
    /\ tpc = "actor" => actor_optimizer.grad = 0
    /\ tpc = "actor_batches" => actor_optimizer.grad = Len(yielded)

(* ------------------------------- C13 ----------------------------------- *)
\* The diagnostics of compute_actor_loss.
C13_ActorKeys == {"kld_t-1", "kld_0", "entropy"}

\* C13: at the end of every epoch of train (critic_train_iters >= 1) the
\* critic diagnostic 'mae', averaged over the minibatches of the last
\* critic iteration, is passed to log and is present in
\* rolling_average_logging_vals, one value logged per epoch, just as the
\* actor diagnostics 'kld_t-1', 'kld_0' and 'entropy' are.
C13_MaeIsLogged ==
    /\ critic_train_iters >= 1
    /\ tpc = "log" =>
          /\ C13_ActorKeys \subseteq DOMAIN average_actor_loss_info
          /\ "mae" \in DOMAIN average_critic_loss_info
    /\ epoch >= 1 =>
          \A k \in C13_ActorKeys \cup {"mae"} :
              /\ k \in DOMAIN rolling_average_logging_vals
              /\ Len(rolling_average_logging_vals[k]) = epoch
====
